---- MODULE Spec2Model ----
(***************************************************************************)
(* Model of my_proof.proof.Proof (the Instagram scoring side of proof.py), *)
(* with the ledger client of utils/blockchain.py and the identity lookup   *)
(* of utils/google.py.  The three files hold both sides of an unresolved   *)
(* merge; the model follows the HEAD side (the 100-point Instagram         *)
(* scoring), and line numbers are those of the files as they stand.        *)
(* validate_schema, the settings object and the ProofResponse class are    *)
(* imported from modules that are not part of the sources: the validator's *)
(* verdict is an input attached to each file, ProofResponse starts with    *)
(* valid = False, zero scores and empty attributes and metadata.           *)
(*                                                                         *)
(* Numbers: the code computes in floating point with fractions k/5, m/12,  *)
(* f/8 and the factors 0.3, 0.5, 0.7, 0.9.  The model computes the same    *)
(* quantities exactly, as integers counted in units of 1/Unit: a fraction  *)
(* 1.0 is Unit, one score point is Unit, 35 points are 35 * Unit.          *)
(***************************************************************************)
EXTENDS Integers, Sequences, FiniteSets, TLC

VARIABLES settings, blockchain_available, dir, idx, pc, errors, google_user,
          is_drive_upload, proof_response, idpCalls, countReads, contentCalls,
          ledger, countSeen, faultSeen

vars == <<settings, blockchain_available, dir, idx, pc, errors, google_user,
          is_drive_upload, proof_response, idpCalls, countReads, contentCalls,
          ledger, countSeen, faultSeen>>

----------------------------------------------------------------------------
(* Bounds of the model *)

\* the largest number of entries of the input directory
MaxFiles == 2
\* the largest prior-contribution count the ledger reports
MaxCount == 1
\* the largest number of posts of a payload
MaxPosts == 1

----------------------------------------------------------------------------
(* Units and the constants of the scoring code *)

\* lcm of the denominators 5, 8, 12 and 10 of the code's fractions
Unit == 12 * 10

QualityMax == 35
AuthenticityMax == 30
UniquenessMax == 20
OwnershipMax == 15
SchemaPoints == 15
ConsistencyPoints == 10
CoveragePoints == 10
OAuthPoints == 20
IntegrityPoints == 10
UserUniqPoints == 10
ContentUniqPoints == 10
OwnerOAuthPoints == 10
DrivePoints == 5
NumBasicFields == 5
NumMetaFields == 3

Min(a, b) == IF a <= b THEN a ELSE b

InstagramSchema == "instagram-profile.json"

----------------------------------------------------------------------------
(* Input payloads.  A payload is the parsed JSON object; each field holds   *)
(* the class of value the code distinguishes.                               *)
(*   userId     "absent" | "empty" (falsy) | "u1" | "u2"                    *)
(*   username   "absent" | "empty" | "blank" (whitespace) | "name"          *)
(*   timestamp  "absent" | "zero" | "pos"                                   *)
(*   profile    kind "absent" | "nonmap" (a list) | "map"; basic = number   *)
(*              of the five descriptive keys present, basicNull = how many  *)
(*              of them are null; each count key is "absent" | "null" |     *)
(*              "neg" | "ok"                                                *)
(*   posts      kind "absent" | "null" | "number" (non-zero) | "list"       *)
(*   metadata   kind "absent" | "nonmap" (a number) | "map"; fields = how   *)
(*              many of source/collectionDate/dataType are present          *)

StatKinds == {"absent", "null", "neg", "ok"}

MkProfile(k, b, bn, f1, f2, f3) ==
    [kind |-> k, basic |-> b, basicNull |-> bn,
     followersCount |-> f1, followingCount |-> f2, postsCount |-> f3]

AbsentProfile == MkProfile("absent", 0, 0, "absent", "absent", "absent")
NonMapProfile == MkProfile("nonmap", 0, 0, "absent", "absent", "absent")
EmptyProfile == MkProfile("map", 0, 0, "absent", "absent", "absent")
FullProfile == MkProfile("map", NumBasicFields, 0, "ok", "ok", "ok")

MkPosts(k, n) == [kind |-> k, len |-> n]
MkMeta(k, n) == [kind |-> k, fields |-> n]

MkPayload(u, n, t, p, po, m) ==
    [userId |-> u, username |-> n, timestamp |-> t, profile |-> p,
     posts |-> po, metadata |-> m]

\* every key present and well formed
FullPayload(u) ==
    MkPayload(u, "name", "pos", FullProfile, MkPosts("list", 1),
              MkMeta("map", NumMetaFields))

\* the required top-level keys only: empty profile, no posts, empty metadata
MinimalPayload(u) ==
    MkPayload(u, "name", "pos", EmptyProfile, MkPosts("absent", 0),
              MkMeta("map", 0))

\* the empty object {}
EmptyPayload ==
    MkPayload("absent", "absent", "absent", AbsentProfile,
              MkPosts("absent", 0), MkMeta("absent", 0))

----------------------------------------------------------------------------
(* Directory entries: a file of the input directory with its extension,     *)
(* the verdict the schema validator gives on it, and its parsed content.    *)

MkEntry(x, m, d) == [ext |-> x, matches |-> m, data |-> d]

\* validate_schema(input_data) -> (schema_type, schema_matches); one schema
\* in the catalog, the verdict is a property of the payload
validate_schema(e) == [schema_type |-> InstagramSchema, schema_matches |-> e.matches]

----------------------------------------------------------------------------
(* Quality *)

_validate_instagram_schema(e) ==
    LET r == validate_schema(e)
    IN  r.schema_matches /\ r.schema_type = "instagram-profile.json"

\* a missing count failing the check instead of reading as 0
StatConsistentWhenPresent(s) == s = "ok"

\* a count read with .get(key, 0): a missing key reads as 0 and passes
StatConsistent(s) == s \in {"absent", "ok"}

B2N(b) == IF b THEN 1 ELSE 0

ConsistencyPasses(d) ==
    B2N(StatConsistent(d.profile.followersCount))
  + B2N(StatConsistent(d.profile.followingCount))
  + B2N(StatConsistent(d.profile.postsCount))
  + B2N(d.timestamp = "pos")
  + B2N(d.username = "name")

_check_instagram_consistency(d) == (ConsistencyPasses(d) * Unit) \div 5

\* a count key counts when present and not None
StatCovered(s) == s \in {"neg", "ok"}

CoverageHits(d) ==
    d.profile.basic
  + B2N(StatCovered(d.profile.followersCount))
  + B2N(StatCovered(d.profile.followingCount))
  + B2N(StatCovered(d.profile.postsCount))
  + B2N(d.posts.kind = "list" /\ d.posts.len > 0)
  + d.metadata.fields

_calculate_instagram_coverage(d) == (CoverageHits(d) * Unit) \div 12

_calculate_instagram_quality_score(e) ==
    Min( (IF _validate_instagram_schema(e) THEN SchemaPoints * Unit ELSE 0)
         + _check_instagram_consistency(e.data) * ConsistencyPoints
         + _calculate_instagram_coverage(e.data) * CoveragePoints,
         QualityMax * Unit)

\* .get('profile', {}).get(...) on a non-mapping, len() of a number, and
\* `field in metadata` on a number raise inside the quality computation
RaisesInQuality(d) ==
    \/ d.profile.kind = "nonmap"
    \/ d.posts.kind = "number"
    \/ d.metadata.kind = "nonmap"

\* len(input_data.get('posts', [])) raises on posts: null
RaisesInAttributes(d) == d.posts.kind = "null"

----------------------------------------------------------------------------
(* Authenticity *)

PresentFields(d) ==
    B2N(d.userId # "absent") + B2N(d.username # "absent")
  + B2N(d.timestamp # "absent") + B2N(d.profile.kind # "absent")
  + B2N(d.metadata.kind # "absent")

IsEmptyObject(d) == PresentFields(d) = 0 /\ d.posts.kind = "absent"

_check_file_integrity(d) ==
    IF IsEmptyObject(d) THEN 0 ELSE (PresentFields(d) * Unit) \div 5

\* the identity bonus of 20 points halved
AuthenticityHalfBonus(gu, d) ==
    Min( (IF gu THEN (OAuthPoints * Unit) \div 2 ELSE 0)
         + _check_file_integrity(d) * IntegrityPoints,
         AuthenticityMax * Unit)

_calculate_instagram_authenticity_score(gu, d) ==
    Min( (IF gu THEN OAuthPoints * Unit ELSE 0)
         + _check_file_integrity(d) * IntegrityPoints,
         AuthenticityMax * Unit)

----------------------------------------------------------------------------
(* The ledger client (utils/blockchain.py).  An rpc answer is what the      *)
(* contract read does when it is issued: it fails, or it reports a count.   *)

NoRpc == [issued |-> FALSE, fail |-> FALSE, count |-> 0]
RpcFails == [issued |-> TRUE, fail |-> TRUE, count |-> 0]
RpcReports(c) == [issued |-> TRUE, fail |-> FALSE, count |-> c]

RpcAnswers == {RpcFails} \cup {RpcReports(c) : c \in 0..MaxCount}

\* How the ledger behaves during the run: "stable" answers every read with
\* the same count, "down" fails every read, "volatile" answers every read on
\* its own (the count changes between reads, a read may fail).
LedgerModes ==
    {[mode |-> "down", count |-> 0], [mode |-> "volatile", count |-> 0]}
    \cup {[mode |-> "stable", count |-> c] : c \in 0..MaxCount}

AnswersOf(l) ==
    IF l.mode = "volatile" THEN RpcAnswers
    ELSE IF l.mode = "down" THEN {RpcFails}
    ELSE {RpcReports(l.count)}

FaultsOf(l) ==
    IF l.mode = "volatile" THEN BOOLEAN
    ELSE IF l.mode = "down" THEN {TRUE}
    ELSE {FALSE}

\* a failed read reported as -1 instead of 0
FileCountErrorCode(ownerSet, rpc) ==
    IF ~ownerSet THEN 0 - 1
    ELSE IF rpc.fail THEN 0 - 1
    ELSE rpc.count

\* except Exception: return 0
get_contributor_file_count(ownerSet, rpc) ==
    IF ~ownerSet THEN 0
    ELSE IF rpc.fail THEN 0
    ELSE rpc.count

\* try: return True / except: return True
check_content_uniqueness(fault) ==
    IF fault THEN [raised |-> FALSE, value |-> TRUE]
    ELSE [raised |-> FALSE, value |-> TRUE]

----------------------------------------------------------------------------
(* Uniqueness *)

\* whether _check_user_uniqueness issues the count read
CountReadIssued(avail, ownerSet) == avail /\ ownerSet

_check_user_uniqueness(avail, ownerSet, rpc) ==
    IF avail /\ ownerSet
    THEN IF get_contributor_file_count(ownerSet, rpc) = 0
         THEN Unit
         ELSE Unit \div 2
    ELSE Unit

Truthy(v) == v \notin {"absent", "empty"}

\* whether _check_content_uniqueness calls the ledger client
ContentCallIssued(avail, d) == Truthy(d.userId) /\ Truthy(d.username) /\ avail

_check_content_uniqueness(avail, d, fault) ==
    IF ~Truthy(d.userId) \/ ~Truthy(d.username) THEN 0
    ELSE IF avail
    THEN LET r == check_content_uniqueness(fault)
         IN  IF r.raised THEN (7 * Unit) \div 10
             ELSE IF r.value THEN Unit
             ELSE (3 * Unit) \div 10
    ELSE Unit

_calculate_instagram_uniqueness_score(avail, ownerSet, d, rpc, fault) ==
    Min( _check_user_uniqueness(avail, ownerSet, rpc) * UserUniqPoints
         + _check_content_uniqueness(avail, d, fault) * ContentUniqPoints,
         UniquenessMax * Unit)

----------------------------------------------------------------------------
(* Ownership and profile completeness *)

\* the trusted-channel bonus doubled and the clamp dropped
OwnershipUnclamped(gu, drive) ==
    (IF gu THEN OwnerOAuthPoints * Unit ELSE 0)
    + (IF gu /\ drive THEN 2 * DrivePoints * Unit ELSE 0)

_calculate_instagram_ownership_score(gu, drive) ==
    Min( (IF gu THEN OwnerOAuthPoints * Unit ELSE 0)
         + (IF gu /\ drive THEN DrivePoints * Unit ELSE 0),
         OwnershipMax * Unit)

_calculate_profile_completeness(d) ==
    ( ( (d.profile.basic - d.profile.basicNull)
        + B2N(StatCovered(d.profile.followersCount))
        + B2N(StatCovered(d.profile.followingCount))
        + B2N(StatCovered(d.profile.postsCount)) ) * Unit ) \div 8

----------------------------------------------------------------------------
(* The identity lookup (utils/google.py).  Tokens: "empty", "test" (starts  *)
(* with test_), "real".  resp is what the provider does when it is asked:   *)
(* "ok" (status 200), "http_error" (another status), "exception".           *)

Tokens == {"empty", "test", "real"}
IdpResponses == {"ok", "http_error", "exception"}

\* the request repeated once when the first attempt does not return 200
GoogleUserWithRetry(token, resp) ==
    IF token = "empty" THEN [user |-> FALSE, calls |-> 0]
    ELSE IF token = "test" THEN [user |-> FALSE, calls |-> 0]
    ELSE [user |-> (resp = "ok"), calls |-> IF resp = "ok" THEN 1 ELSE 2]

\* user: whether a GoogleUserInfo is returned; calls: outbound requests made
get_google_user(token, resp) ==
    IF token = "empty" THEN [user |-> FALSE, calls |-> 0]
    ELSE IF token = "test" THEN [user |-> FALSE, calls |-> 0]
    ELSE [user |-> (resp = "ok"), calls |-> 1]

_check_if_drive_upload(s) == s.UPLOAD_SOURCE = "google_drive"

----------------------------------------------------------------------------
(* The proof record *)

NoAttributes ==
    [filled |-> FALSE, schema_type |-> "", user_id |-> "absent",
     username |-> "absent", verified_via_oauth |-> FALSE,
     uploaded_via_drive |-> FALSE, instagram_api_available |-> FALSE,
     data_coverage |-> 0, data_consistency |-> 0, posts_count |-> 0,
     profile_completeness |-> 0, user_uniqueness |-> 0,
     content_uniqueness |-> 0, total_uniqueness_score |-> 0,
     upload_method |-> "", has_errors |-> FALSE, errors |-> <<>>]

NoMetadata ==
    [filled |-> FALSE, schema_type |-> "", upload_method |-> "",
     penalty_applied |-> "None"]

\* ProofResponse(dlp_id=...): the record before any file is scored
ProofResponse ==
    [valid |-> FALSE, score |-> 0, quality |-> 0, authenticity |-> 0,
     uniqueness |-> 0, ownership |-> 0,
     attributes |-> NoAttributes, metadata |-> NoMetadata]

Contains(seq, x) == \E k \in 1..Len(seq) : seq[k] = x

UploadMethod(drive) == IF drive THEN "google_drive" ELSE "manual"

PostsCount(d) == IF d.posts.kind = "list" THEN d.posts.len ELSE 0

\* the penalty factor kept as the score instead of being subtracted
FinalScoreKeepsPenalty(base, errs) ==
    IF Contains(errs, "NO_GOOGLE_OAUTH")
    THEN (base * 9) \div 10
    ELSE base

\* base_score - base_score * 0.90 when NO_GOOGLE_OAUTH was recorded
FinalScore(base, errs) ==
    IF Contains(errs, "NO_GOOGLE_OAUTH")
    THEN base - (base * 9) \div 10
    ELSE base

\* the no-identity code treated as a penalty that does not invalidate
ValidFlagPenaltyTolerant(errs) ==
    \A k \in 1..Len(errs) : errs[k] = "NO_GOOGLE_OAUTH"

\* valid = len(errors) == 0
ValidFlag(errs) == Len(errs) = 0

----------------------------------------------------------------------------
(* Proof.__init__ and the configuration *)

Settings ==
    [GOOGLE_TOKEN : Tokens, OWNER_ADDRESS : BOOLEAN,
     UPLOAD_SOURCE : {"google_drive", "manual"}]

InitWith(dirs) ==
    /\ settings \in Settings
    /\ blockchain_available \in BOOLEAN
    /\ dir \in dirs
    /\ idx = 1
    /\ pc = "start"
    /\ errors = <<>>
    /\ google_user = FALSE
    /\ is_drive_upload = FALSE
    /\ proof_response = ProofResponse
    /\ idpCalls = 0
    /\ countReads = 0
    /\ contentCalls = 0
    /\ ledger \in LedgerModes
    /\ countSeen = NoRpc
    /\ faultSeen = FALSE

----------------------------------------------------------------------------
(* Proof.generate *)

\* lines 233-257: resolve the identity once, read the upload channel
ResolveIdentity ==
    /\ pc = "start"
    /\ \E resp \in IdpResponses :
         LET r == IF settings.GOOGLE_TOKEN # "empty"
                  THEN get_google_user(settings.GOOGLE_TOKEN, resp)
                  ELSE [user |-> FALSE, calls |-> 0]
         IN  /\ google_user' = r.user
             /\ idpCalls' = idpCalls + r.calls
             /\ errors' = IF settings.GOOGLE_TOKEN # "empty" /\ ~r.user
                          THEN Append(errors, "UNVERIFIED_STORAGE_USER")
                          ELSE errors
    /\ is_drive_upload' = _check_if_drive_upload(settings)
    /\ pc' = "loop"
    /\ UNCHANGED <<settings, blockchain_available, ledger, dir, idx, proof_response,
                   countReads, contentCalls, countSeen, faultSeen>>

\* line 273: an entry that is no .json file is passed over
SkipFile ==
    /\ pc = "loop" /\ idx <= Len(dir)
    /\ dir[idx].ext # "json"
    /\ idx' = idx + 1
    /\ UNCHANGED <<settings, blockchain_available, ledger, dir, pc, errors, google_user,
                   is_drive_upload, proof_response, idpCalls, countReads,
                   contentCalls, countSeen, faultSeen>>

\* `continue` in the place of `break`
AfterMismatchContinue == "loop"

\* what `break` at line 287 does to the loop
AfterMismatch == "finish"

\* lines 285-287: the schema does not match
SchemaMismatch ==
    /\ pc = "loop" /\ idx <= Len(dir)
    /\ dir[idx].ext = "json"
    /\ ~validate_schema(dir[idx]).schema_matches
    /\ errors' = Append(errors, "INVALID_SCHEMA")
    /\ pc' = AfterMismatch
    /\ idx' = IF AfterMismatch = "finish" THEN idx ELSE idx + 1
    /\ UNCHANGED <<settings, blockchain_available, ledger, dir, google_user,
                   is_drive_upload, proof_response, idpCalls, countReads,
                   contentCalls, countSeen, faultSeen>>

\* lines 292-294
ErrorsForFile(errs, gu) ==
    IF ~gu THEN Append(errs, "NO_GOOGLE_OAUTH") ELSE errs

CountAnswers(l, avail, ownerSet) ==
    IF CountReadIssued(avail, ownerSet) THEN AnswersOf(l) ELSE {NoRpc}

Faults(l, avail, d) == IF ContentCallIssued(avail, d) THEN FaultsOf(l) ELSE {FALSE}

\* what a uniqueness computation (lines 298 and 315) can return: one value
\* for each answer the ledger may give to the two reads it issues
UniquenessOutcomes(l, avail, ownerSet, d) ==
    {_calculate_instagram_uniqueness_score(avail, ownerSet, d, r, f) :
        r \in CountAnswers(l, avail, ownerSet), f \in Faults(l, avail, d)}

\* lines 302-319: the public attributes; uu, cu and total are the values of
\* lines 313, 314 and 315
Attributes(e, gu, drive, uu, cu, total) ==
    [filled |-> TRUE,
     schema_type |-> validate_schema(e).schema_type,
     user_id |-> e.data.userId,
     username |-> e.data.username,
     verified_via_oauth |-> gu,
     uploaded_via_drive |-> drive,
     instagram_api_available |-> FALSE,
     data_coverage |-> _calculate_instagram_coverage(e.data),
     data_consistency |-> _check_instagram_consistency(e.data),
     posts_count |-> PostsCount(e.data),
     profile_completeness |-> _calculate_profile_completeness(e.data),
     user_uniqueness |-> uu,
     content_uniqueness |-> cu,
     total_uniqueness_score |-> total,
     upload_method |-> UploadMethod(drive),
     has_errors |-> FALSE,
     errors |-> <<>>]

\* lines 369-379: the metadata written on chain
Metadata(e, drive, errs) ==
    [filled |-> TRUE,
     schema_type |-> validate_schema(e).schema_type,
     upload_method |-> UploadMethod(drive),
     penalty_applied |-> IF Contains(errs, "NO_GOOGLE_OAUTH")
                         THEN "NO_GOOGLE_OAUTH" ELSE "None"]

\* lines 321-335 and 381: the record after a file is scored
Scored(e, gu, drive, errs, uniq, uu, cu, total) ==
    LET q == _calculate_instagram_quality_score(e)
        a == _calculate_instagram_authenticity_score(gu, e.data)
        o == _calculate_instagram_ownership_score(gu, drive)
        base == q + a + uniq + o
    IN  [valid |-> ValidFlag(errs),
         score |-> FinalScore(base, errs),
         quality |-> q,
         authenticity |-> a,
         uniqueness |-> uniq,
         ownership |-> o,
         attributes |-> Attributes(e, gu, drive, uu, cu, total),
         metadata |-> Metadata(e, drive, errs)]

\* lines 289-381: a schema-matching file is scored and the record overwritten.
\* The count read is issued at lines 298, 313 and 315, the content check at
\* lines 298, 314 and 315; every one gets its own answer from the ledger.
\* countSeen and faultSeen keep what the ledger did at lines 313 and 314.
ScoreFile ==
    /\ pc = "loop" /\ idx <= Len(dir)
    /\ dir[idx].ext = "json"
    /\ validate_schema(dir[idx]).schema_matches
    /\ ~RaisesInQuality(dir[idx].data)
    /\ ~RaisesInAttributes(dir[idx].data)
    /\ LET e == dir[idx]
           avail == blockchain_available
           own == settings.OWNER_ADDRESS
           errs == ErrorsForFile(errors, google_user)
       IN  \E uniq \in UniquenessOutcomes(ledger, avail, own, e.data) :
           \E r2 \in CountAnswers(ledger, avail, own) :
           \E f2 \in Faults(ledger, avail, e.data) :
           \E total \in UniquenessOutcomes(ledger, avail, own, e.data) :
              /\ errors' = errs
              /\ proof_response' =
                   Scored(e, google_user, is_drive_upload, errs, uniq,
                          _check_user_uniqueness(avail, own, r2),
                          _check_content_uniqueness(avail, e.data, f2), total)
              /\ countSeen' = r2
              /\ faultSeen' = f2
              /\ countReads' = countReads
                    + (IF CountReadIssued(avail, own) THEN 3 ELSE 0)
              /\ contentCalls' = contentCalls
                    + (IF ContentCallIssued(avail, e.data) THEN 3 ELSE 0)
    /\ idx' = idx + 1
    /\ UNCHANGED <<settings, blockchain_available, ledger, dir, pc, google_user,
                   is_drive_upload, idpCalls>>

\* line 296: the quality computation raises; generate ends with the exception
ScoreFileRaisesInQuality ==
    /\ pc = "loop" /\ idx <= Len(dir)
    /\ dir[idx].ext = "json"
    /\ validate_schema(dir[idx]).schema_matches
    /\ RaisesInQuality(dir[idx].data)
    /\ errors' = ErrorsForFile(errors, google_user)
    /\ pc' = "raised"
    /\ UNCHANGED <<settings, blockchain_available, ledger, dir, idx, google_user,
                   is_drive_upload, proof_response, idpCalls, countReads,
                   contentCalls, countSeen, faultSeen>>

\* line 311: the sub-scores are stored, then len(None) raises
ScoreFileRaisesInAttributes ==
    /\ pc = "loop" /\ idx <= Len(dir)
    /\ dir[idx].ext = "json"
    /\ validate_schema(dir[idx]).schema_matches
    /\ ~RaisesInQuality(dir[idx].data)
    /\ RaisesInAttributes(dir[idx].data)
    /\ LET e == dir[idx]
           avail == blockchain_available
           own == settings.OWNER_ADDRESS
       IN  \E uniq \in UniquenessOutcomes(ledger, avail, own, e.data) :
              /\ proof_response' =
                   [proof_response EXCEPT
                      !.quality = _calculate_instagram_quality_score(e),
                      !.authenticity =
                          _calculate_instagram_authenticity_score(google_user, e.data),
                      !.uniqueness = uniq,
                      !.ownership =
                          _calculate_instagram_ownership_score(google_user,
                                                               is_drive_upload)]
              /\ countReads' = countReads
                    + (IF CountReadIssued(avail, own) THEN 1 ELSE 0)
              /\ contentCalls' = contentCalls
                    + (IF ContentCallIssued(avail, e.data) THEN 1 ELSE 0)
    /\ errors' = ErrorsForFile(errors, google_user)
    /\ pc' = "raised"
    /\ UNCHANGED <<settings, blockchain_available, ledger, dir, idx, google_user,
                   is_drive_upload, idpCalls, countSeen, faultSeen>>

\* lines 383-387: the loop is over (exhausted or broken); attach the errors
Finish ==
    /\ \/ pc = "loop" /\ idx > Len(dir)
       \/ pc = "finish"
    /\ proof_response' =
         IF Len(errors) > 0
         THEN [proof_response EXCEPT !.attributes.has_errors = TRUE,
                                     !.attributes.errors = errors]
         ELSE proof_response
    /\ pc' = "done"
    /\ UNCHANGED <<settings, blockchain_available, ledger, dir, idx, errors, google_user,
                   is_drive_upload, idpCalls, countReads, contentCalls, countSeen, faultSeen>>

Next ==
    \/ ResolveIdentity
    \/ SkipFile
    \/ SchemaMismatch
    \/ ScoreFile
    \/ ScoreFileRaisesInQuality
    \/ ScoreFileRaisesInAttributes
    \/ Finish

----------------------------------------------------------------------------
(* Runs over directories of up to MaxFiles entries *)

NonJsonEntry == MkEntry("txt", FALSE, EmptyPayload)
MismatchEntry == MkEntry("json", FALSE, EmptyPayload)
MismatchFullEntry == MkEntry("json", FALSE, FullPayload("u1"))
FullEntry == MkEntry("json", TRUE, FullPayload("u1"))
MinimalEntry == MkEntry("json", TRUE, MinimalPayload("u2"))
PostsNullEntry ==
    MkEntry("json", TRUE, [FullPayload("u1") EXCEPT !.posts = MkPosts("null", 0)])
BadProfileEntry ==
    MkEntry("json", TRUE, [MinimalPayload("u2") EXCEPT !.profile = NonMapProfile])

DirEntries ==
    {NonJsonEntry, MismatchEntry, MismatchFullEntry, FullEntry, MinimalEntry,
     PostsNullEntry, BadProfileEntry}

Dirs == UNION {[1..n -> DirEntries] : n \in 0..MaxFiles}

Init == InitWith(Dirs)

Spec == Init /\ [][Next]_vars

----------------------------------------------------------------------------
(* Runs over one file, the payload drawn from a wide set *)

TopLevelPayloads ==
    {MkPayload(u, n, t, p, MkPosts("absent", 0), m) :
        u \in {"absent", "empty", "u1"},
        n \in {"absent", "empty", "blank", "name"},
        t \in {"absent", "zero", "pos"},
        p \in {AbsentProfile, FullProfile},
        m \in {MkMeta("absent", 0), MkMeta("map", NumMetaFields)}}

Profiles ==
    {AbsentProfile, NonMapProfile,
     MkProfile("map", NumBasicFields, NumBasicFields, "ok", "ok", "ok")}
    \cup {MkProfile("map", b, 0, f1, f2, f3) :
            b \in {0, NumBasicFields}, f1 \in StatKinds, f2 \in StatKinds,
            f3 \in {"absent", "ok"}}

PostsValues ==
    {MkPosts("absent", 0), MkPosts("null", 0), MkPosts("number", 0)}
    \cup {MkPosts("list", n) : n \in 0..MaxPosts}

MetadataValues ==
    {MkMeta("absent", 0), MkMeta("nonmap", 0), MkMeta("map", 0),
     MkMeta("map", NumMetaFields)}

\* the profile varies under full posts and metadata
ProfilePayloads ==
    {MkPayload("u1", "name", "pos", p, MkPosts("list", MaxPosts),
               MkMeta("map", NumMetaFields)) : p \in Profiles}

\* posts and metadata vary under a full and under an empty profile
NestedPayloads ==
    {MkPayload("u1", "name", "pos", p, po, m) :
        p \in {FullProfile, EmptyProfile}, po \in PostsValues,
        m \in MetadataValues}

\* the required top-level keys with every class of value, nothing optional
RequiredOnlyPayloads ==
    {MinimalPayload("u1")}
    \cup {MkPayload(u, n, t, EmptyProfile, MkPosts("absent", 0), MkMeta("map", 0)) :
            u \in {"empty", "u1"}, n \in {"empty", "blank", "name"},
            t \in {"zero", "pos"}}

ScorePayloads ==
    TopLevelPayloads \cup ProfilePayloads \cup NestedPayloads
    \cup RequiredOnlyPayloads

ScoreDirs ==
    {<<NonJsonEntry>>, <<MismatchEntry>>}
    \cup {<<MkEntry("json", TRUE, d)>> : d \in ScorePayloads}

InitScore == InitWith(ScoreDirs)

SpecScore == InitScore /\ [][Next]_vars

----------------------------------------------------------------------------
(* Properties *)

\* the error list of the record: attributes['errors'], absent when empty
ReturnedErrors ==
    IF proof_response.attributes.has_errors
    THEN proof_response.attributes.errors
    ELSE <<>>

SubScoreSum ==
    proof_response.quality + proof_response.authenticity
    + proof_response.uniqueness + proof_response.ownership

\* a candidate file was handed to the validator and did not match
MismatchValidated ==
    \E k \in 1..Len(dir) :
        /\ k <= idx
        /\ dir[k].ext = "json"
        /\ ~validate_schema(dir[k]).schema_matches

(* C1: when a candidate .json payload of the run fails schema validation,   *)
(* the returned record has valid = false and its error list contains        *)
(* INVALID_SCHEMA, whatever was processed before it.                        *)
C1_MismatchInvalidates ==
    (pc = "done" /\ MismatchValidated)
        => /\ proof_response.valid = FALSE
           /\ Contains(ReturnedErrors, "INVALID_SCHEMA")

(* C2: the four stored sub-scores stay within [0, 35], [0, 30], [0, 20] and *)
(* [0, 15] points for every payload, so their sum is at most 100 points.    *)
C2_SubScoresBounded ==
    /\ 0 <= proof_response.quality
    /\ proof_response.quality <= QualityMax * Unit
    /\ 0 <= proof_response.authenticity
    /\ proof_response.authenticity <= AuthenticityMax * Unit
    /\ 0 <= proof_response.uniqueness
    /\ proof_response.uniqueness <= UniquenessMax * Unit
    /\ 0 <= proof_response.ownership
    /\ proof_response.ownership <= OwnershipMax * Unit
    /\ SubScoreSum <= 100 * Unit

\* a returned record whose four sub-scores all sit on their upper bound
C2_Witness ==
    /\ pc = "done"
    /\ proof_response.quality = QualityMax * Unit
    /\ proof_response.authenticity = AuthenticityMax * Unit
    /\ proof_response.uniqueness = UniquenessMax * Unit
    /\ proof_response.ownership = OwnershipMax * Unit

(* C3: once a file is scored in a run without a resolved identity, the      *)
(* stored score is exactly one tenth of the sum of the four stored          *)
(* sub-scores and NO_GOOGLE_OAUTH is in the error list; with a resolved     *)
(* identity the stored score is the sum itself.                             *)
C3_PenaltyIsTenPercent ==
    (pc \in {"loop", "finish", "done"} /\ proof_response.attributes.filled)
        => IF google_user
           THEN proof_response.score = SubScoreSum
           ELSE /\ 10 * proof_response.score = SubScoreSum
                /\ Contains(errors, "NO_GOOGLE_OAUTH")
                /\ pc = "done" => Contains(ReturnedErrors, "NO_GOOGLE_OAUTH")

\* a returned, penalized record: the provider was asked and returned nothing
C3_Witness ==
    /\ pc = "done"
    /\ settings.GOOGLE_TOKEN = "real"
    /\ ~google_user
    /\ proof_response.attributes.filled
    /\ proof_response.score > 0
    /\ 10 * proof_response.score = SubScoreSum

(* C4: the returned record has valid = true exactly when its error list is  *)
(* empty, in every run.                                                     *)
C4_ValidIffNoErrors ==
    pc = "done" => (proof_response.valid <=> Len(ReturnedErrors) = 0)

\* scenario B: no credential configured, one schema-matching file, returned
C5_ScenarioB ==
    /\ pc = "done"
    /\ settings.GOOGLE_TOKEN = "empty"
    /\ Len(dir) = 1
    /\ dir[1].ext = "json"
    /\ validate_schema(dir[1]).schema_matches

\* C5 as claimed: the record of scenario B is valid
C5_AbsentIdentityKeepsValid ==
    C5_ScenarioB
        => /\ proof_response.valid = TRUE
           /\ 10 * proof_response.score = SubScoreSum
           /\ Contains(ReturnedErrors, "NO_GOOGLE_OAUTH")

(* C5: in a run with no credential configured and a single schema-matching  *)
(* payload, the returned record has valid = false (NO_GOOGLE_OAUTH is in    *)
(* the error list, and valid means an empty error list), the score is       *)
(* penalized to 10% and the no-identity code is recorded.                   *)
C5_AbsentIdentityInvalidates ==
    C5_ScenarioB
        => /\ proof_response.valid = FALSE
           /\ 10 * proof_response.score = SubScoreSum
           /\ Contains(ReturnedErrors, "NO_GOOGLE_OAUTH")

C5_Witness ==
    /\ C5_ScenarioB
    /\ dir[1] = FullEntry
    /\ proof_response.attributes.filled
    /\ proof_response.score > 0

----------------------------------------------------------------------------

(* C6: the user-uniqueness sub-term (10 points) is at its maximum when the  *)
(* ledger reports zero prior contributions, exactly half of it when the     *)
(* ledger reports a count >= 1, and at its maximum when the client failed   *)
(* to initialize, the owner address is unset or the count read fails.       *)
C6_UserUniquenessByLedger ==
    proof_response.attributes.filled =>
        LET term == proof_response.attributes.user_uniqueness * UserUniqPoints
            asked == blockchain_available /\ settings.OWNER_ADDRESS
        IN  /\ (asked /\ countSeen.issued /\ ~countSeen.fail /\ countSeen.count = 0)
                  => term = UserUniqPoints * Unit
            /\ (asked /\ countSeen.issued /\ ~countSeen.fail /\ countSeen.count >= 1)
                  => 2 * term = UserUniqPoints * Unit
            /\ (~blockchain_available \/ ~settings.OWNER_ADDRESS
                   \/ (countSeen.issued /\ countSeen.fail))
                  => term = UserUniqPoints * Unit

\* a scored file for which the ledger reported a prior contribution
C6_Witness ==
    /\ proof_response.attributes.filled
    /\ countSeen.issued /\ ~countSeen.fail /\ countSeen.count >= 1
    /\ 2 * proof_response.attributes.user_uniqueness = Unit

(* C7: whenever the content-uniqueness check of a payload that has an id    *)
(* and a handle cannot be completed (ledger client unavailable, or the      *)
(* ledger query fails), the content-uniqueness sub-term gets partial        *)
(* credit: more than 0 and less than its full 10 points.                    *)
C7_UnknownGetsPartialCredit ==
    ( /\ proof_response.attributes.filled
      /\ Truthy(proof_response.attributes.user_id)
      /\ Truthy(proof_response.attributes.username)
      /\ (~blockchain_available \/ faultSeen) )
        => /\ 0 < proof_response.attributes.content_uniqueness
           /\ proof_response.attributes.content_uniqueness < Unit

(* C8: in a run the identity provider is contacted at most once, whatever   *)
(* the number of files, and never when the configured credential is empty   *)
(* (the identity is then absent).                                           *)
C8_IdentityAskedAtMostOnce ==
    /\ idpCalls <= 1
    /\ settings.GOOGLE_TOKEN = "empty" => (idpCalls = 0 /\ ~google_user)

\* a finished run that scored a full directory after one provider call
C8_Witness ==
    /\ pc = "done"
    /\ idpCalls = 1
    /\ Len(dir) = MaxFiles
    /\ idx > Len(dir)
    /\ \A k \in 1..Len(dir) :
          dir[k].ext = "json" /\ validate_schema(dir[k]).schema_matches

Scorable(k) == dir[k].ext = "json" /\ validate_schema(dir[k]).schema_matches

Mismatching(k) == dir[k].ext = "json" /\ ~validate_schema(dir[k]).schema_matches

\* the last schema-matching file among the first n entries, 0 if none
LastScorable(n) ==
    LET S == {k \in 1..n : Scorable(k)}
    IN  IF S = {} THEN 0 ELSE CHOOSE k \in S : \A j \in S : j <= k

\* the first mismatching file, Len(dir) + 1 if none
FirstMismatch ==
    LET S == {k \in 1..Len(dir) : Mismatching(k)}
    IN  IF S = {} THEN Len(dir) + 1 ELSE CHOOSE k \in S : \A j \in S : k <= j

\* the record carries the results of file k (of no file when k = 0)
CarriesFile(k) ==
    IF k = 0
    THEN /\ ~proof_response.attributes.filled
         /\ ~proof_response.metadata.filled
         /\ proof_response.score = 0
    ELSE /\ proof_response.attributes.filled
         /\ proof_response.metadata.filled
         /\ proof_response.attributes.user_id = dir[k].data.userId
         /\ proof_response.attributes.posts_count = PostsCount(dir[k].data)
         /\ proof_response.attributes.data_coverage
               = _calculate_instagram_coverage(dir[k].data)
         /\ proof_response.quality = _calculate_instagram_quality_score(dir[k])
         /\ proof_response.authenticity
               = _calculate_instagram_authenticity_score(google_user, dir[k].data)
         /\ proof_response.score
               = FinalScore(SubScoreSum, ErrorsForFile(<<>>, google_user))

\* C9 as claimed: files after a mismatching file are still scored
C9_MismatchStopsThatFileOnly ==
    pc = "done" => CarriesFile(LastScorable(Len(dir)))

(* C9: a schema mismatch stops the whole run: no file after the first       *)
(* mismatching file is validated or scored, so the returned record carries  *)
(* the score, attributes and metadata of the last schema-matching file      *)
(* before the first mismatch (its initial values when there is none).       *)
C9_MismatchStopsTheRun ==
    pc = "done"
        => /\ CarriesFile(LastScorable(FirstMismatch - 1))
           /\ FirstMismatch <= Len(dir) => idx = FirstMismatch

\* a finished run with a schema-matching file after a mismatching one
C9_Witness ==
    /\ pc = "done"
    /\ \E k, j \in 1..Len(dir) : k < j /\ Mismatching(k) /\ Scorable(j)

\* scenario A: one fully populated matching payload, identity resolved,
\* a ledger that reports zero prior contributions
C10_ScenarioA ==
    /\ pc = "done"
    /\ dir = <<FullEntry>>
    /\ google_user
    /\ ledger = [mode |-> "stable", count |-> 0]

(* C10: in scenario A the returned record is valid and its score is the     *)
(* maximum, 100 points for a trusted-channel upload and 95 otherwise.       *)
C10_FullPayloadMaxScore ==
    C10_ScenarioA
        => /\ proof_response.valid = TRUE
           /\ proof_response.score =
                 IF is_drive_upload THEN 100 * Unit ELSE 95 * Unit

C10_Witness ==
    /\ C10_ScenarioA
    /\ blockchain_available /\ settings.OWNER_ADDRESS
    /\ is_drive_upload
    /\ countSeen = RpcReports(0)
    /\ proof_response.score = 100 * Unit

----------------------------------------------------------------------------

\* the five required top-level keys are present, nothing optional is:
\* no descriptive or count field in the profile, no posts, no metadata field
RequiredKeysOnly(d) ==
    /\ d.userId # "absent"
    /\ d.username # "absent"
    /\ d.timestamp # "absent"
    /\ d.profile = EmptyProfile
    /\ d.posts = MkPosts("absent", 0)
    /\ d.metadata = MkMeta("map", 0)

\* scenario C: the run over one such schema-matching payload has returned
C11_ScenarioC ==
    /\ pc = "done"
    /\ Len(dir) = 1
    /\ dir[1].ext = "json"
    /\ validate_schema(dir[1]).schema_matches
    /\ RequiredKeysOnly(dir[1].data)

\* C11 as claimed: consistency and coverage are both below 1 and both
\* reduce the quality score
C11_BothSubTermsReduced ==
    C11_ScenarioC
        => /\ proof_response.attributes.data_consistency < Unit
           /\ proof_response.attributes.data_coverage < Unit
           /\ proof_response.quality
                 < SchemaPoints * Unit + ConsistencyPoints * Unit
                   + proof_response.attributes.data_coverage * CoveragePoints
           /\ proof_response.quality
                 < SchemaPoints * Unit + CoveragePoints * Unit
                   + proof_response.attributes.data_consistency * ConsistencyPoints
           /\ ~Contains(ReturnedErrors, "INVALID_SCHEMA")

(* C11: in scenario C the coverage fraction is 0, so the quality score is   *)
(* below its value with coverage at full; the consistency fraction is not   *)
(* reduced by the missing count fields (a missing count reads as 0 and      *)
(* passes): it is 1 exactly when the timestamp is positive and the handle   *)
(* non-blank, and below 1 otherwise; the quality score is the schema points *)
(* plus the consistency points, at most 25; INVALID_SCHEMA is not recorded. *)
C11_CoverageReducedOnly ==
    C11_ScenarioC
        => /\ proof_response.attributes.data_coverage = 0
           /\ (proof_response.attributes.data_consistency = Unit)
                 <=> (dir[1].data.timestamp = "pos" /\ dir[1].data.username = "name")
           /\ proof_response.attributes.data_consistency <= Unit
           /\ 5 * proof_response.attributes.data_consistency >= 3 * Unit
           /\ proof_response.quality
                 = SchemaPoints * Unit
                   + proof_response.attributes.data_consistency * ConsistencyPoints
           /\ proof_response.quality
                 < SchemaPoints * Unit + CoveragePoints * Unit
                   + proof_response.attributes.data_consistency * ConsistencyPoints
           /\ proof_response.quality <= (SchemaPoints + ConsistencyPoints) * Unit
           /\ ~Contains(ReturnedErrors, "INVALID_SCHEMA")

\* the payload with well-formed required keys: consistency is not reduced
C11_Witness ==
    /\ C11_ScenarioC
    /\ dir[1].data = MinimalPayload("u1")
    /\ proof_response.attributes.data_consistency = Unit
    /\ proof_response.quality = (SchemaPoints + ConsistencyPoints) * Unit

----------------------------------------------------------------------------

\* the (identity-id, handle) pairs of the files the run scored
ScoredPairs ==
    {<<dir[k].data.userId, dir[k].data.username>> :
        k \in {j \in 1..Len(dir) : Scorable(j) /\ j < FirstMismatch}}

(* C12: in a run, the prior-contribution-count read for the owner address  *)
(* is issued at most once, and the content-uniqueness read is issued at    *)
(* most once per (identity-id, handle) pair, however many files are scored *)
C12_EachLedgerFactReadOnce ==
    pc = "done"
        => /\ countReads <= 1
           /\ contentCalls <= Cardinality(ScoredPairs)

(* C13: in every returned record for which a file was scored, the stored   *)
(* uniqueness sub-score, the published total and the published fractions   *)
(* agree, whatever the ledger answers between the successive reads         *)
C13_UniquenessEvidenceAgrees ==
    (pc = "done" /\ proof_response.attributes.filled)
        => /\ proof_response.uniqueness
                = proof_response.attributes.total_uniqueness_score
           /\ proof_response.uniqueness
                = Min(proof_response.attributes.user_uniqueness * UserUniqPoints
                      + proof_response.attributes.content_uniqueness
                        * ContentUniqPoints,
                      UniquenessMax * Unit)

====
